---- MODULE Spec2Model ----
(***************************************************************************)
(* Terminal Session Bridge of k8s-terminal-server (lib/terminal.go,        *)
(* server.go): the session registry, the per-request handler, the          *)
(* orchestrator ExecTerminal with its shell fallback, the socket reader    *)
(* loop readFromWebTerminal and the four PtyHandler methods, together with *)
(* the remote-exec collaborator (client-go remotecommand) and the client   *)
(* as environment.                                                         *)
(***************************************************************************)
EXTENDS Integers, Sequences, FiniteSets, TLC

(* ------------------------------ bounds --------------------------------- *)
\* number of terminal requests the environment issues
MaxSessions == 2
\* frames the clients send, all sockets together
MaxFrames == 2
\* longest inbound frame / outbound chunk, in bytes
MaxFrameLen == 2
\* largest buffer the collaborator passes to Read
MaxBuf == 2
\* Write calls the collaborator issues, all streams together
MaxWrites == 2

(* --------------------------- program constants ------------------------- *)
\* bytes := make([]byte, 16)
IdBytes == 16

Sessions == 1..MaxSessions
One == {1}
Bytes == {1, 2}
BufSizes == 1..MaxBuf

RECURSIVE SeqsUpTo(_, _)
SeqsUpTo(S, n) ==
  IF n = 0 THEN {<<>>}
  ELSE LET shorter == SeqsUpTo(S, n - 1)
       IN  shorter \cup {Append(q, x) : q \in {t \in shorter : Len(t) = n - 1}, x \in S}

\* payloads of socket frames and of output chunks: non-empty byte strings
Frames == SeqsUpTo(Bytes, MaxFrameLen) \ {<<>>}
\* the payload used where the content does not matter
UnitFrames == {<<1>>}
\* one output chunk of each length
Chunks == {[i \in 1..n |-> 1] : n \in 1..MaxFrameLen}

Min(a, b) == IF a < b THEN a ELSE b

IsPrefix(p, q) == Len(p) <= Len(q) /\ SubSeq(q, 1, Len(p)) = p

(* ------------------------- session identifiers ------------------------- *)
\* hex.Encode's table "0123456789abcdef"
HexTable ==
  <<"0", "1", "2", "3", "4", "5", "6", "7", "8", "9", "a", "b", "c", "d", "e", "f">>

\* an encoding that leaves out the shift: the low nibble, twice
HexEncodeLowNibble(bytes) ==
  [i \in 1..(2 * Len(bytes)) |-> HexTable[(bytes[(i + 1) \div 2] % 16) + 1]]

\* hex.Encode(id, bytes): two characters per byte, high nibble first
HexEncode(bytes) ==
  [i \in 1..(2 * Len(bytes)) |->
     LET b == bytes[(i + 1) \div 2]
     IN  HexTable[(IF i % 2 = 1 THEN b \div 16 ELSE b % 16) + 1]]

\* what rand.Read can do for request s: fill the 16 bytes, or fail and supply
\* none.  The entropy source never repeats an output: request s draws bytes
\* no other request draws.
RandFail == <<>>
RandDraw(s) == [i \in 1..IdBytes |-> (37 * s + 11 * i) % 256]
RandOutcomes(s) == {RandDraw(s), RandFail}

\* GenTerminalSessionId: ("", err) when rand.Read fails, else (hex, nil)
GenTerminalSessionId(rnd) ==
  IF rnd = RandFail
  THEN [id |-> <<>>, err |-> TRUE]
  ELSE [id |-> HexEncode(rnd), err |-> FALSE]

(* ------------------------------ sessions ------------------------------- *)
\* A TerminalSession value.  sockConn and the channels are references: the
\* number names the request whose CreateSession made them, 0 is nil.
MkSession(sessionId, c, s) ==
  [id |-> sessionId, sockConn |-> c, sizeChan |-> s, bound |-> s,
   receiver |-> s, sender |-> s]

\* the zero value a Go map lookup yields for an absent key
ZeroSession == MkSession(<<>>, 0, 0)

\* terminalSessions[sessionId] as an rvalue
Lookup(m, sessionId) == IF sessionId \in DOMAIN m THEN m[sessionId] ELSE ZeroSession

\* terminalSessions[sessionId] = terminalSession
Insert(m, sessionId, sess) ==
  [x \in DOMAIN m \cup {sessionId} |-> IF x = sessionId THEN sess ELSE m[x]]

\* copy(p, m) with len(p) = n: the bytes Read hands to its caller
Copy(n, m) == SubSeq(m, 1, Min(n, Len(m)))

\* shells := []string{"bash", "sh"}
shells == <<"bash", "sh">>

VARIABLES
  terminalSessions, \* the registry: id -> TerminalSession
  hpc,              \* TerminalHandler of each request
  hsess,            \* the terminalSession local of CreateSession
  drawn,            \* what rand.Read gave GenTerminalSessionId for the request
  opc,              \* ExecTerminal of each request
  deferSess,        \* receiver of the deferred Close, evaluated at the defer
  shellIdx,         \* index of the for loop over shells
  err,              \* ExecTerminal's err
  ptySess,          \* the ptyHandler argument of the current execPod
  rpc,              \* readFromWebTerminal of each request
  rsess,            \* the session value the reader loop's last lookup gave
  rmsg,             \* message held by the reader loop
  conn,             \* state of each websocket connection
  clientGone,       \* the peer of the connection has gone away
  nframes,          \* frames the client has sent so far
  nwrites,          \* Write calls issued so far
  reads,            \* Read calls blocked on a receiver channel
  nexts,            \* Next calls blocked on a sizeChan
  stdin,            \* chunks forwarded to the remote process of each stream, not yet echoed
  racing,           \* registry accesses that overlapped a write
  crashed,          \* the process died (panic or runtime fatal error)
  \* ---- history, written but never read by the program ----
  attempts,         \* shells execPod was started with, and how each start went
  closeCount,       \* Close calls per connection
  sockRecv,         \* bytes ReadMessage has returned, per connection
  sent,             \* the frames the client of each connection has sent, in order
  delivered,        \* bytes Read has returned, per receiver channel
  out,              \* frames written to each socket
  issued,           \* payloads of the Write calls that returned nil, per socket
  wres              \* result of the last Write of each orchestrator

vars == <<terminalSessions, hpc, hsess, drawn, opc, deferSess, shellIdx, err, ptySess,
          rpc, rsess, rmsg, conn, clientGone, nframes, nwrites, reads, nexts,
          stdin, racing, crashed, attempts, closeCount, sockRecv, sent, delivered,
          out, issued, wres>>

hvars == <<hpc, hsess, drawn>>
ovars == <<opc, deferSess, shellIdx, err, ptySess>>
rvars == <<rpc, rsess, rmsg>>
cvars == <<conn, clientGone, nframes>>
histvars == <<attempts, closeCount, sockRecv, sent, delivered, out, issued, wres>>

\* var terminalSessions = make(map[string]TerminalSession), nothing running
Init ==
  /\ terminalSessions = <<>>
  /\ hpc = [s \in Sessions |-> "idle"]
  /\ hsess = [s \in Sessions |-> ZeroSession]
  /\ drawn = [s \in Sessions |-> RandFail]
  /\ opc = [s \in Sessions |-> "none"]
  /\ deferSess = [s \in Sessions |-> ZeroSession]
  /\ shellIdx = [s \in Sessions |-> 1]
  /\ err = [s \in Sessions |-> "nil"]
  /\ ptySess = [s \in Sessions |-> ZeroSession]
  /\ rpc = [s \in Sessions |-> "none"]
  /\ rsess = [s \in Sessions |-> ZeroSession]
  /\ rmsg = [s \in Sessions |-> <<>>]
  /\ conn = [s \in Sessions |-> "none"]
  /\ clientGone = [s \in Sessions |-> FALSE]
  /\ nframes = 0
  /\ nwrites = 0
  /\ reads = {}
  /\ nexts = {}
  /\ stdin = [s \in Sessions |-> <<>>]
  /\ racing = {}
  /\ crashed = FALSE
  /\ attempts = [s \in Sessions |-> <<>>]
  /\ closeCount = [s \in Sessions |-> 0]
  /\ sockRecv = [s \in Sessions |-> <<>>]
  /\ sent = [s \in Sessions |-> <<>>]
  /\ delivered = [s \in Sessions |-> <<>>]
  /\ out = [s \in Sessions |-> <<>>]
  /\ issued = [s \in Sessions |-> <<>>]
  /\ wres = [s \in Sessions |-> [n |-> 0, err |-> FALSE, len |-> 0, on |-> "none"]]

(* ----------------- unsynchronised accesses to the registry -------------- *)
\* tasks that are inside a map write / a map read
Writers == {<<"handler", s>> : s \in {x \in Sessions : hpc[x] = "writing"}}
Readers ==
  {<<"orchestrator", s>> : s \in {x \in Sessions : opc[x] \in {"deferLk", "execLk"}}}
    \cup {<<"reader", s>> : s \in {x \in Sessions : rpc[x] \in {"lk211", "lk216"}}}

\* the accesses that race once task t starts to read / to write
BeginRead(t) == IF Writers # {} THEN racing \cup {t} \cup Writers ELSE racing
BeginWrite(t) ==
  IF Writers \cup Readers # {} THEN racing \cup {t} \cup Writers \cup Readers ELSE racing

\* what a lookup by task t can yield: the entry, or, when the read raced with
\* a write, also the zero value
LookupResults(t, sessionId) ==
  IF t \in racing
  THEN {Lookup(terminalSessions, sessionId), ZeroSession}
  ELSE {Lookup(terminalSessions, sessionId)}

\* what an insert by task t can leave: the entry stored, or, when the write
\* raced, also the table as it was
InsertResults(t, sessionId, sess) ==
  IF t \in racing
  THEN {Insert(terminalSessions, sessionId, sess), terminalSessions}
  ELSE {Insert(terminalSessions, sessionId, sess)}


(* --------------------------- server.go handler -------------------------- *)
\* what the jwtToken query parameter can be: a string of three segments or
\* not, signed with the server's key or not, with an exp claim that is
\* absent, in the past or in the future
Tokens == [wellFormed : BOOLEAN, signed : BOOLEAN, exp : {"none", "past", "future"}]

\* jwt.ParseWithClaims: no token at all for a string that is not three
\* segments; else a token, whose Valid says that the signature verifies and
\* that an exp claim, if there is one, has not passed
ParseWithClaims(tokenString) ==
  IF ~tokenString.wellFormed
  THEN [token |-> "nil", Valid |-> FALSE]
  ELSE [token |-> "token", Valid |-> tokenString.signed /\ tokenString.exp # "past"]

\* claims.StandardClaims.VerifyExpiresAt(now, true): exp is required
VerifyExpiresAt(tokenString) == tokenString.exp = "future"

\* token.Claims on the nil token is a nil dereference: the handler panics
\* and net/http recovers, ending the request
IsVaildJwtTokenPanics(tokenString) == ParseWithClaims(tokenString).token = "nil"

\* IsVaildJwtToken, reached through checkJwtToken
IsVaildJwtToken(tokenString) ==
  ParseWithClaims(tokenString).Valid /\ VerifyExpiresAt(tokenString)

checkJwtToken(token) == IsVaildJwtToken(token)

\* a handler that upgrades the connection before it checks the token
UpgradeBeforeCheck(authorised, upgradeOk) == IF upgradeOk THEN "open" ELSE "none"

\* the connection a request has once TerminalHandler has dealt with it:
\* upgrader.Upgrade is called in CreateSession only, behind the token check
Upgrade(authorised, upgradeOk) == IF authorised /\ upgradeOk THEN "open" ELSE "none"

\* TerminalHandler up to the map write of CreateSession: the token check, the
\* upgrade (whose error is only logged), the id (whose error is dropped) and
\* the session value.  The write to the registry starts here.
TerminalHandler(s, token, upgradeOk, rnd) ==
  /\ ~crashed
  /\ hpc[s] = "idle"
  /\ IF IsVaildJwtTokenPanics(token)
     THEN /\ hpc' = [hpc EXCEPT ![s] = "panicked"]
          /\ conn' = [conn EXCEPT ![s] = Upgrade(FALSE, upgradeOk)]
          /\ UNCHANGED <<hsess, drawn, racing>>
     ELSE IF checkJwtToken(token)
     THEN LET c == IF upgradeOk THEN s ELSE 0
              sessionId == GenTerminalSessionId(rnd).id
          IN  /\ conn' = [conn EXCEPT ![s] = Upgrade(TRUE, upgradeOk)]
              /\ hsess' = [hsess EXCEPT ![s] = MkSession(sessionId, c, s)]
              /\ drawn' = [drawn EXCEPT ![s] = rnd]
              /\ racing' = BeginWrite(<<"handler", s>>)
              /\ hpc' = [hpc EXCEPT ![s] = "writing"]
     ELSE /\ hpc' = [hpc EXCEPT ![s] = "rejected"]
          /\ conn' = [conn EXCEPT ![s] = Upgrade(FALSE, upgradeOk)]
          /\ UNCHANGED <<hsess, drawn, racing>>
  /\ UNCHANGED <<terminalSessions, ovars, rvars, clientGone, nframes, nwrites,
                 reads, nexts, stdin, crashed, histvars>>

\* terminalSessions[sessionId] = terminalSession completes; CreateSession
\* returns (sessionId, nil), so the handler always runs go ExecTerminal
CreateSession(s) ==
  /\ ~crashed
  /\ hpc[s] = "writing"
  /\ \E m \in InsertResults(<<"handler", s>>, hsess[s].id, hsess[s]) :
       terminalSessions' = m
  /\ racing' = racing \ {<<"handler", s>>}
  /\ hpc' = [hpc EXCEPT ![s] = "done"]
  /\ opc' = [opc EXCEPT ![s] = "start"]
  /\ UNCHANGED <<hsess, drawn, deferSess, shellIdx, err, ptySess, rvars, cvars, nwrites,
                 reads, nexts, stdin, crashed, histvars>>

\* the id the handler passes to ExecTerminal
sessionIdOf(s) == hsess[s].id

(* ------------------------------ ExecTerminal ---------------------------- *)
\* defer terminalSessions[sessionId].Close(): the lookup starts
ExecTerminalDefer(s) ==
  /\ ~crashed
  /\ opc[s] = "start"
  /\ racing' = BeginRead(<<"orchestrator", s>>)
  /\ opc' = [opc EXCEPT ![s] = "deferLk"]
  /\ UNCHANGED <<terminalSessions, hvars, deferSess, shellIdx, err, ptySess, rvars,
                 cvars, nwrites, reads, nexts, stdin, crashed, histvars>>

\* the deferred call's receiver is fixed; go readFromWebTerminal(sessionId)
ExecTerminalGo(s) ==
  /\ ~crashed
  /\ opc[s] = "deferLk"
  /\ \E v \in LookupResults(<<"orchestrator", s>>, sessionIdOf(s)) :
       deferSess' = [deferSess EXCEPT ![s] = v]
  /\ racing' = racing \ {<<"orchestrator", s>>}
  /\ opc' = [opc EXCEPT ![s] = "loop"]
  /\ rpc' = [rpc EXCEPT ![s] = "start"]
  /\ UNCHANGED <<terminalSessions, hvars, shellIdx, err, ptySess, rsess, rmsg, cvars,
                 nwrites, reads, nexts, stdin, crashed, histvars>>

\* one iteration of for _, shell := range shells: the lookup of the
\* ptyHandler argument starts
ExecTerminalLoop(s) ==
  /\ ~crashed
  /\ opc[s] = "loop"
  /\ racing' = BeginRead(<<"orchestrator", s>>)
  /\ opc' = [opc EXCEPT ![s] = "execLk"]
  /\ UNCHANGED <<terminalSessions, hvars, deferSess, shellIdx, err, ptySess, rvars,
                 cvars, nwrites, reads, nexts, stdin, crashed, histvars>>

\* a loop that gives up at the first error instead of trying the next shell
AfterExecPodNoFallback(idx, e) == [pc |-> "closing", idx |-> idx]

\* where ExecTerminal goes when execPod has returned e for shells[idx]: break
\* on nil, else the next shell, else out of the loop with the last error
AfterExecPod(idx, e) ==
  IF e = "nil" THEN [pc |-> "closing", idx |-> idx]
  ELSE IF idx < Len(shells) THEN [pc |-> "loop", idx |-> idx + 1]
  ELSE [pc |-> "closing", idx |-> idx]

\* a call of Read(p), len(p) = n, by the stdin copier of stream a of
\* orchestrator o, blocked in m := <-t.receiver
ReadCall(o, a, sess, n) == [o |-> o, a |-> a, ch |-> sess.receiver, n |-> n]

\* a call of Next by the resize goroutine of that stream, blocked in
\* select { case size := <-t.sizeChan }
NextCall(o, a, sess) == [o |-> o, a |-> a, ch |-> sess.sizeChan]

\* execPod up to the start of the stream: NewSPDYExecutor or the start of
\* exec.Stream fails (started = FALSE), or the shell runs and the stream is
\* up.  A stream that is up has its stdin copier in Read (buffer of n bytes)
\* and its resize goroutine in Next, both on the ptyHandler it was given.
execPod(s, started, n) ==
  /\ ~crashed
  /\ opc[s] = "execLk"
  /\ racing' = racing \ {<<"orchestrator", s>>}
  /\ attempts' = [attempts EXCEPT ![s] =
       Append(@, [shell |-> shells[shellIdx[s]], started |-> started])]
  /\ \E v \in LookupResults(<<"orchestrator", s>>, sessionIdOf(s)) :
       /\ ptySess' = [ptySess EXCEPT ![s] = v]
       /\ IF started
          THEN /\ opc' = [opc EXCEPT ![s] = "streaming"]
               /\ reads' = reads \cup {ReadCall(s, shellIdx[s], v, n)}
               /\ nexts' = nexts \cup {NextCall(s, shellIdx[s], v)}
               /\ UNCHANGED <<shellIdx, err>>
          ELSE LET nxt == AfterExecPod(shellIdx[s], "err")
               IN  /\ opc' = [opc EXCEPT ![s] = nxt.pc]
                   /\ shellIdx' = [shellIdx EXCEPT ![s] = nxt.idx]
                   /\ err' = [err EXCEPT ![s] = "err"]
                   /\ UNCHANGED <<reads, nexts>>
  /\ UNCHANGED <<terminalSessions, hvars, deferSess, rvars, cvars, nwrites, stdin,
                 crashed, closeCount, sockRecv, sent, delivered, out, issued, wres>>

\* exec.Stream returns: nil when the remote process exited cleanly, an error
\* when it crashed, exited non-zero or the transport broke.  What the process
\* had been sent and had not answered is gone with it.
StreamReturn(s, e) ==
  /\ ~crashed
  /\ opc[s] = "streaming"
  /\ LET nxt == AfterExecPod(shellIdx[s], e)
     IN  /\ opc' = [opc EXCEPT ![s] = nxt.pc]
         /\ shellIdx' = [shellIdx EXCEPT ![s] = nxt.idx]
  /\ err' = [err EXCEPT ![s] = e]
  /\ stdin' = [stdin EXCEPT ![s] = <<>>]
  /\ UNCHANGED <<terminalSessions, hvars, deferSess, ptySess, rvars, cvars, nwrites,
                 reads, nexts, racing, crashed, histvars>>

\* TerminalSession.Close on a live connection: sockConn.Close()
Close(k) ==
  /\ conn' = [conn EXCEPT ![k] = "closed"]
  /\ closeCount' = [closeCount EXCEPT ![k] = @ + 1]

\* ExecTerminal returns and the deferred Close runs on the receiver fixed at
\* the defer; a nil sockConn is a nil dereference, which ends the process
ExecTerminalReturn(s) ==
  /\ ~crashed
  /\ opc[s] = "closing"
  /\ IF deferSess[s].sockConn = 0
     THEN /\ crashed' = TRUE
          /\ UNCHANGED <<opc, conn, closeCount>>
     ELSE /\ Close(deferSess[s].sockConn)
          /\ opc' = [opc EXCEPT ![s] = "done"]
          /\ UNCHANGED crashed
  /\ UNCHANGED <<terminalSessions, hvars, deferSess, shellIdx, err, ptySess, rvars,
                 clientGone, nframes, nwrites, reads, nexts, stdin, racing, attempts,
                 sockRecv, sent, delivered, out, issued, wres>>


(* --------------------------- readFromWebTerminal ------------------------ *)
\* top of the for loop: the lookup of terminalSessions[sessionId].sockConn starts
readFromWebTerminal(s) ==
  /\ ~crashed
  /\ rpc[s] = "start"
  /\ racing' = BeginRead(<<"reader", s>>)
  /\ rpc' = [rpc EXCEPT ![s] = "lk211"]
  /\ UNCHANGED <<terminalSessions, hvars, ovars, rsess, rmsg, cvars, nwrites, reads,
                 nexts, stdin, crashed, histvars>>

\* the lookup is done and the loop calls ReadMessage on what it found
readFromWebTerminalConn(s) ==
  /\ ~crashed
  /\ rpc[s] = "lk211"
  /\ \E v \in LookupResults(<<"reader", s>>, sessionIdOf(s)) :
       rsess' = [rsess EXCEPT ![s] = v]
  /\ racing' = racing \ {<<"reader", s>>}
  /\ rpc' = [rpc EXCEPT ![s] = "readmsg"]
  /\ UNCHANGED <<terminalSessions, hvars, ovars, rmsg, cvars, nwrites, reads, nexts, stdin,
                 crashed, histvars>>

\* ReadMessage returns the next frame the client sent; the lookup of
\* terminalSessions[sessionId].receiver starts
ReadMessage(s, f) ==
  /\ ~crashed
  /\ rpc[s] = "readmsg"
  /\ LET k == rsess[s].sockConn
     IN  /\ k # 0
         /\ conn[k] = "open"
         /\ ~clientGone[k]
         /\ nframes < MaxFrames
         /\ nframes' = nframes + 1
         /\ sockRecv' = [sockRecv EXCEPT ![k] = @ \o f]
         /\ sent' = [sent EXCEPT ![k] = Append(@, f)]
  /\ rmsg' = [rmsg EXCEPT ![s] = f]
  /\ racing' = BeginRead(<<"reader", s>>)
  /\ rpc' = [rpc EXCEPT ![s] = "lk216"]
  /\ UNCHANGED <<terminalSessions, hvars, ovars, rsess, conn, clientGone, nwrites,
                 reads, nexts, stdin, crashed, attempts, closeCount, delivered,
                 out, issued, wres>>

\* ReadMessage fails (the connection was closed here, or the client went
\* away): log and break.  On a nil sockConn the call is a nil dereference.
ReadMessageErr(s) ==
  /\ ~crashed
  /\ rpc[s] = "readmsg"
  /\ LET k == rsess[s].sockConn
     IN  IF k = 0
         THEN /\ crashed' = TRUE
              /\ UNCHANGED rpc
         ELSE /\ conn[k] = "closed" \/ clientGone[k]
              /\ rpc' = [rpc EXCEPT ![s] = "exited"]
              /\ UNCHANGED crashed
  /\ UNCHANGED <<terminalSessions, hvars, ovars, rsess, rmsg, cvars, nwrites, reads,
                 nexts, stdin, racing, histvars>>

\* the receiver channel is looked up; the loop now blocks in the send
readFromWebTerminalSend(s) ==
  /\ ~crashed
  /\ rpc[s] = "lk216"
  /\ \E v \in LookupResults(<<"reader", s>>, sessionIdOf(s)) :
       rsess' = [rsess EXCEPT ![s] = v]
  /\ racing' = racing \ {<<"reader", s>>}
  /\ rpc' = [rpc EXCEPT ![s] = "send"]
  /\ UNCHANGED <<terminalSessions, hvars, ovars, rmsg, cvars, nwrites, reads, nexts, stdin,
                 crashed, histvars>>

(* ------------------- PtyHandler methods and their caller ---------------- *)
\* the stream of orchestrator s is up, on its current shell
Streaming(s) == opc[s] = "streaming"

\* the unbuffered hand-off: the reader loop of s sends its message on the
\* channel a Read is blocked on, and that Read returns copy(p, m), nil.  The
\* copier of a stream that is still up calls Read again, with a buffer of n
\* bytes and forwards what it got to the remote process; the copier of a
\* stream that has ended stops at its failed write, and what it got is lost.
\* (Nothing sends on or closes a sizeChan: no step lets a Next call return.)
Read(rd, s, n) ==
  /\ ~crashed
  /\ rd \in reads
  /\ rpc[s] = "send"
  /\ rd.ch # 0
  /\ rsess[s].receiver = rd.ch
  /\ delivered' = [delivered EXCEPT ![rd.ch] = @ \o Copy(rd.n, rmsg[s])]
  /\ reads' = (reads \ {rd}) \cup
       (IF Streaming(rd.o) /\ shellIdx[rd.o] = rd.a
        THEN {ReadCall(rd.o, rd.a, ptySess[rd.o], n)} ELSE {})
  /\ stdin' = IF Streaming(rd.o) /\ shellIdx[rd.o] = rd.a
               THEN [stdin EXCEPT ![rd.o] = Append(@, Copy(rd.n, rmsg[s]))]
               ELSE stdin
  /\ rpc' = [rpc EXCEPT ![s] = "start"]
  /\ UNCHANGED <<terminalSessions, hvars, ovars, rsess, rmsg, cvars, nwrites, nexts,
                 racing, crashed, attempts, closeCount, sockRecv, sent, out, issued, wres>>

\* how the peer of connection k looks to a write
ConnState(k) ==
  IF conn[k] = "closed" THEN "closed" ELSE IF clientGone[k] THEN "gone" ELSE "open"

\* sockConn.WriteMessage(TextMessage, p) on connection k: TRUE is a nil error.
\* After Close it fails; towards a vanished peer it fails or is still buffered.
WriteMessage(k) ==
  IF ConnState(k) = "closed" THEN {FALSE}
  ELSE IF ConnState(k) = "gone" THEN {TRUE, FALSE}
  ELSE {TRUE}

\* a Write that reports len(p) also when WriteMessage failed
WriteResultLenOnError(p, ok) == [n |-> Len(p), err |-> ~ok]

\* what Write returns for p when WriteMessage went ok / failed
WriteResult(p, ok) == IF ok THEN [n |-> Len(p), err |-> FALSE] ELSE [n |-> 0, err |-> TRUE]

\* TerminalSession.Write(p), called by the collaborator with process output:
\* any output, or (echoed) the process's answer to the oldest input it holds,
\* which is that input
Write(s, p, echoed) ==
  /\ ~crashed
  /\ Streaming(s)
  /\ IF echoed
     THEN /\ stdin[s] # <<>>
          /\ p = Head(stdin[s])
          /\ stdin' = [stdin EXCEPT ![s] = Tail(@)]
     ELSE UNCHANGED stdin
  /\ nwrites < MaxWrites
  /\ nwrites' = nwrites + 1
  /\ LET k == ptySess[s].sockConn
     IN  IF k = 0
         THEN /\ crashed' = TRUE
              /\ UNCHANGED <<out, issued, wres>>
         ELSE /\ \E ok \in WriteMessage(k) :
                   /\ out' = [out EXCEPT ![k] = IF ok THEN Append(@, p) ELSE @]
                   /\ issued' = [issued EXCEPT ![k] =
                        IF ~WriteResult(p, ok).err THEN Append(@, p) ELSE @]
                   /\ wres' = [wres EXCEPT ![s] =
                        [n |-> WriteResult(p, ok).n, err |-> WriteResult(p, ok).err,
                         len |-> Len(p), on |-> ConnState(k)]]
              /\ UNCHANGED crashed
  /\ UNCHANGED <<terminalSessions, hvars, ovars, rvars, cvars, reads, nexts, racing,
                 attempts, closeCount, sockRecv, sent, delivered>>

(* ------------------------------ environment ----------------------------- *)
\* the client of connection k goes away
ClientDisconnect(k) ==
  /\ ~crashed
  /\ conn[k] = "open"
  /\ ~clientGone[k]
  /\ clientGone' = [clientGone EXCEPT ![k] = TRUE]
  /\ UNCHANGED <<terminalSessions, hvars, ovars, rvars, conn, nframes, nwrites, reads,
                 nexts, stdin, racing, crashed, histvars>>

\* the Go runtime detects a concurrent map access and ends the process
RaceFatal ==
  /\ ~crashed
  /\ racing # {}
  /\ crashed' = TRUE
  /\ UNCHANGED <<terminalSessions, hvars, ovars, rvars, cvars, nwrites, reads, nexts, stdin,
                 racing, histvars>>

(* ---------------------------- specifications ---------------------------- *)
\* MaxSessions concurrent requests against the one registry.  What is varied
\* here is what the requests share: the tokens, the entropy source (so that
\* ids can collide) and the interleaving of the unsynchronised map accesses.
\* Every upgrade succeeds, every client stays, the first shell starts and
\* exits cleanly and inbound frames are one byte; SpecOne varies those.
Next ==
  \/ \E s \in Sessions : \E token \in Tokens, rnd \in RandOutcomes(s) :
       TerminalHandler(s, token, TRUE, rnd)
  \/ \E s \in Sessions : CreateSession(s)
  \/ \E s \in Sessions : ExecTerminalDefer(s)
  \/ \E s \in Sessions : ExecTerminalGo(s)
  \/ \E s \in Sessions : ExecTerminalLoop(s)
  \/ \E s \in Sessions : execPod(s, TRUE, 1)
  \/ \E s \in Sessions : StreamReturn(s, "nil")
  \/ \E s \in Sessions : ExecTerminalReturn(s)
  \/ \E s \in Sessions : readFromWebTerminal(s)
  \/ \E s \in Sessions : readFromWebTerminalConn(s)
  \/ \E s \in Sessions, f \in UnitFrames : ReadMessage(s, f)
  \/ \E s \in Sessions : ReadMessageErr(s)
  \/ \E s \in Sessions : readFromWebTerminalSend(s)
  \/ \E s \in Sessions, rd \in reads : Read(rd, s, 1)
  \/ \E s \in Sessions, p \in Chunks : Write(s, p, FALSE)
  \/ RaceFatal

Spec == Init /\ [][Next]_vars

\* one request alone, with every fault of its environment: a failed upgrade,
\* a failed entropy source, shells that do not start, streams that end in an
\* error, a client that goes away.  Inbound frames are one byte.
NextOne ==
  \/ \E s \in One : \E token \in Tokens, upgradeOk \in BOOLEAN, rnd \in RandOutcomes(s) :
       TerminalHandler(s, token, upgradeOk, rnd)
  \/ \E s \in One : CreateSession(s)
  \/ \E s \in One : ExecTerminalDefer(s)
  \/ \E s \in One : ExecTerminalGo(s)
  \/ \E s \in One : ExecTerminalLoop(s)
  \/ \E s \in One, started \in BOOLEAN : execPod(s, started, 1)
  \/ \E s \in One, e \in {"nil", "err"} : StreamReturn(s, e)
  \/ \E s \in One : ExecTerminalReturn(s)
  \/ \E s \in One : readFromWebTerminal(s)
  \/ \E s \in One : readFromWebTerminalConn(s)
  \/ \E s \in One, f \in UnitFrames : ReadMessage(s, f)
  \/ \E s \in One : ReadMessageErr(s)
  \/ \E s \in One : readFromWebTerminalSend(s)
  \/ \E s \in One, rd \in reads : Read(rd, s, 1)
  \/ \E s \in One, p \in Chunks : Write(s, p, FALSE)
  \/ \E k \in One : ClientDisconnect(k)

SpecOne == Init /\ [][NextOne]_vars

\* the data path of one request: every inbound payload, every Read buffer
\* size and every output chunk, over a session whose upgrade and id succeeded
\* and whose shells start
NextData ==
  \/ \E s \in One, token \in Tokens : TerminalHandler(s, token, TRUE, RandDraw(s))
  \/ \E s \in One : CreateSession(s)
  \/ \E s \in One : ExecTerminalDefer(s)
  \/ \E s \in One : ExecTerminalGo(s)
  \/ \E s \in One : ExecTerminalLoop(s)
  \/ \E s \in One, n \in BufSizes : execPod(s, TRUE, n)
  \/ \E s \in One, e \in {"nil", "err"} : StreamReturn(s, e)
  \/ \E s \in One : ExecTerminalReturn(s)
  \/ \E s \in One : readFromWebTerminal(s)
  \/ \E s \in One : readFromWebTerminalConn(s)
  \/ \E s \in One, f \in Frames : ReadMessage(s, f)
  \/ \E s \in One : ReadMessageErr(s)
  \/ \E s \in One : readFromWebTerminalSend(s)
  \/ \E s \in One, rd \in reads, n \in BufSizes : Read(rd, s, n)
  \/ \E s \in One, p \in Chunks : Write(s, p, FALSE)
  \/ \E k \in One : ClientDisconnect(k)

SpecData == Init /\ [][NextData]_vars

\* one request end to end against a remote process that echoes: it answers
\* every chunk of input with that chunk, and it does not exit.  A shell that
\* is not installed fails to start, or its stream ends in an error before
\* the client has sent anything.  The client stays, and every Read buffer is
\* as long as the longest frame.
NextEcho ==
  \/ \E s \in One, token \in Tokens : TerminalHandler(s, token, TRUE, RandDraw(s))
  \/ \E s \in One : CreateSession(s)
  \/ \E s \in One : ExecTerminalDefer(s)
  \/ \E s \in One : ExecTerminalGo(s)
  \/ \E s \in One : ExecTerminalLoop(s)
  \/ \E s \in One, started \in BOOLEAN : execPod(s, started, MaxFrameLen)
  \/ \E s \in One : nframes = 0 /\ StreamReturn(s, "err")
  \/ \E s \in One : ExecTerminalReturn(s)
  \/ \E s \in One : readFromWebTerminal(s)
  \/ \E s \in One : readFromWebTerminalConn(s)
  \/ \E s \in One, f \in Frames : ReadMessage(s, f)
  \/ \E s \in One : ReadMessageErr(s)
  \/ \E s \in One : readFromWebTerminalSend(s)
  \/ \E s \in One, rd \in reads : Read(rd, s, MaxFrameLen)
  \/ \E s \in One, p \in Frames : Write(s, p, TRUE)

SpecEcho == Init /\ [][NextEcho]_vars

\* bytes at the edges of the two nibbles
EdgeBytes == {1, 15, 16, 17, 255}

\* buffers rand.Read can have filled: all zero, or zero but for one edge byte
Draws ==
  {[i \in 1..IdBytes |-> 0]} \cup
  {[i \in 1..IdBytes |-> IF i = j THEN b ELSE 0] : j \in 1..IdBytes, b \in EdgeBytes}

Two == {1, 2}

\* identifier generation: two requests up to the end of CreateSession, over
\* every such buffer
NextIds ==
  \/ \E s \in Two, token \in Tokens, rnd \in Draws \cup {RandFail} :
       TerminalHandler(s, token, TRUE, rnd)
  \/ \E s \in Two : CreateSession(s)

SpecIds == Init /\ [][NextIds]_vars

(* ------------------------------- properties ----------------------------- *)
\* orchestrator s has had a stream up: the resize goroutine of that stream is
\* in Next, and stays there
EverStreamed(s) == \E nx \in nexts : nx.o = s

\* the steps the server takes by itself for request s, without the client
\* sending, the remote process exiting or writing, or a new request arriving
ProgramStep(s) ==
  \/ CreateSession(s)
  \/ ExecTerminalDefer(s)
  \/ ExecTerminalGo(s)
  \/ ExecTerminalLoop(s)
  \/ \E started \in BOOLEAN, n \in BufSizes : execPod(s, started, n)
  \/ ExecTerminalReturn(s)
  \/ readFromWebTerminal(s)
  \/ readFromWebTerminalConn(s)
  \/ ReadMessageErr(s)
  \/ readFromWebTerminalSend(s)
  \/ \E rd \in reads, n \in BufSizes : Read(rd, s, n)

\* C1: the bytes the Read calls on a session's receiver channel have returned,
\* concatenated, are a prefix of the bytes of the frames ReadMessage has
\* returned on its connection, concatenated in arrival order: nothing is
\* reordered and no byte of a handed-over frame is missing, whatever the
\* buffer sizes.
C1_ReadDeliversPrefix ==
  \A s \in Sessions : IsPrefix(delivered[s], sockRecv[s])

\* C2: the candidates are started in the order bash, sh; once the start of
\* bash has failed and ExecTerminal is past its loop or streaming, sh has been
\* started; a session whose second start succeeded has entered Streaming; and
\* an orchestrator that is closing or closed with every start failed has
\* tried every candidate and never had a stream up.
C2_ShellFallback ==
  \A s \in Sessions :
    LET a == attempts[s]
        past == opc[s] \in {"streaming", "closing", "done"}
    IN  /\ Len(a) <= Len(shells)
        /\ \A i \in 1..Len(a) : a[i].shell = shells[i]
        /\ (Len(a) >= 1 /\ ~a[1].started /\ past) => Len(a) = 2
        /\ (Len(a) = 2 /\ ~a[1].started /\ a[2].started) => (past /\ EverStreamed(s))
        /\ (opc[s] \in {"closing", "done"} /\ \A i \in 1..Len(a) : ~a[i].started)
             => (Len(a) = Len(shells) /\ ~EverStreamed(s))

\* witness of C2: bash failed to start, sh was started and its stream is up
C2_Witness ==
  \E s \in Sessions :
    /\ Len(attempts[s]) = 2
    /\ ~attempts[s][1].started
    /\ attempts[s][2] = [shell |-> "sh", started |-> TRUE]
    /\ opc[s] = "streaming"

\* C3: within one session at most one candidate enters Streaming: a candidate
\* whose start succeeded is the last one started, also when its stream ended
\* with an error.
C3_OneStreamPerSession ==
  \A s \in Sessions :
    \A i \in 1..Len(attempts[s]) : attempts[s][i].started => i = Len(attempts[s])

\* C4: the connection of every session is closed at most once, and exactly
\* once when its orchestrator has returned.
C4_CloseExactlyOnce ==
  \A s \in Sessions :
    /\ closeCount[s] <= 1
    /\ opc[s] = "done" => closeCount[s] = 1

\* C5: once the orchestrator of a session has returned, the registry holds no
\* entry under that session's id.
C5_RegistryCleared ==
  \A s \in Sessions : opc[s] = "done" => sessionIdOf(s) \notin DOMAIN terminalSessions

\* C6: while a session is streaming and its client is gone, the server can
\* still take a step of its own for it (towards Closed): it does not depend on
\* the remote process exiting or writing.
C6_DisconnectLeadsToClosed ==
  \A s \in Sessions :
    (~crashed /\ Streaming(s) /\ clientGone[s]) => ENABLED ProgramStep(s)

\* C7: no access to the registry overlaps a write to it by another task.
C7_RegistryExclusive ==
  \A w \in Writers : Writers \cup Readers = {w}

\* C8: a Read call that is pending once the reader loop of its session has
\* terminated (as it does after the client went away or the connection was
\* closed) can still return.
C8_ReadReturnsWhenClosing ==
  \A rd \in reads :
    (~crashed /\ rd.ch # 0 /\ rpc[rd.ch] = "exited")
      => ENABLED (\E s \in Sessions, n \in BufSizes : Read(rd, s, n))

\* the tasks that send on, or close, the sizeChan ch: the program has none
SizeChanSenders(ch) == {}

\* a Next call returns: it receives what a sender hands it
TerminalSessionNext(nx) ==
  /\ ~crashed
  /\ nx \in nexts
  /\ SizeChanSenders(nx.ch) # {}
  /\ nexts' = nexts \ {nx}
  /\ UNCHANGED <<terminalSessions, hvars, ovars, rvars, cvars, nwrites, reads, stdin, racing,
                 crashed, histvars>>

\* C9: every pending call of Next can return.
C9_NextReturns ==
  \A nx \in nexts : ~crashed => ENABLED TerminalSessionNext(nx)

\* C10: a Write on a closed connection returns (0, error); a Write on an open
\* connection returns (len(p), nil); no Write returns both bytes and an error.
C10_WriteContract ==
  \A s \in Sessions :
    LET r == wres[s]
    IN  /\ r.on = "closed" => (r.err /\ r.n = 0)
        /\ r.on = "open" => (~r.err /\ r.n = r.len)
        /\ r.err => r.n = 0

\* witness of C10: a Write was made on a connection after its Close, and failed
C10_Witness ==
  \E s \in Sessions : wres[s].on = "closed" /\ wres[s].err /\ wres[s].len > 0

\* request s came with a token that was not accepted
Refused(s) == hpc[s] \in {"rejected", "panicked"}

\* C11: a request whose token is invalid or expired creates nothing: it has
\* no session value, no upgraded connection, no orchestrator and no reader
\* loop, and the registry holds no entry made for it.
C11_RejectedCreatesNothing ==
  \A s \in Sessions :
    Refused(s) =>
      /\ hsess[s] = ZeroSession
      /\ conn[s] = "none"
      /\ opc[s] = "none"
      /\ rpc[s] = "none"
      /\ \A x \in DOMAIN terminalSessions : terminalSessions[x].bound # s

\* witness of C11: a request with an expired token has been turned away
C11_Witness == \E s \in Sessions : hpc[s] = "rejected"

\* the upgrade of the accepted request s failed: its session has no connection
UpgradeFailed(s) == hpc[s] \in {"writing", "done"} /\ hsess[s].sockConn = 0

\* C12: a request whose upgrade failed has no entry in the registry, and
\* neither an orchestrator nor a reader loop runs for it.
C12_UpgradeFailureAborts ==
  \A s \in Sessions :
    UpgradeFailed(s) =>
      /\ \A x \in DOMAIN terminalSessions : terminalSessions[x].bound # s
      /\ opc[s] = "none"
      /\ rpc[s] = "none"

\* rand.Read failed for the accepted request s: GenTerminalSessionId gave ""
EntropyFailed(s) == hpc[s] \in {"writing", "done"} /\ hsess[s].id = <<>>

\* C13: the registry never holds an entry under the empty id, and a request
\* whose identifier generation failed has no entry in the registry and no
\* orchestrator.
C13_EntropyFailureAborts ==
  /\ <<>> \notin DOMAIN terminalSessions
  /\ \A s \in Sessions :
       EntropyFailed(s) =>
         /\ \A x \in DOMAIN terminalSessions : terminalSessions[x].bound # s
         /\ opc[s] = "none"

\* CreateSession has returned for request s and its session is not torn down
Live(s) == hpc[s] = "done" /\ opc[s] # "done"

\* C14: the id CreateSession returned for a live session maps in the registry
\* to the session that call created, and no two requests were given the
\* same id.
C14_IdMapsToItsSession ==
  /\ \A s \in Sessions :
       Live(s) => /\ sessionIdOf(s) \in DOMAIN terminalSessions
                  /\ terminalSessions[sessionIdOf(s)] = hsess[s]
  /\ \A s1, s2 \in Sessions :
       (s1 # s2 /\ hpc[s1] = "done" /\ hpc[s2] = "done")
         => sessionIdOf(s1) # sessionIdOf(s2)

\* the frame the reader loop of request s has received and not yet handed over
Held(s) == IF rpc[s] \in {"lk216", "send"} THEN <<rmsg[s]>> ELSE <<>>

\* C15: against an echoing remote process no frame is lost, changed or
\* reordered on its way: the frames the client has received back, then the
\* chunks the process holds and has not yet answered, then the frame the
\* reader loop holds, are the frames the client has sent, in the order sent.
\* (A frame that has left this pipeline can never be received back.)
C15_EchoEndToEnd ==
  \A s \in Sessions : out[s] \o stdin[s] \o Held(s) = sent[s]

\* the lowercase hex digits
HexDigits ==
  {"0", "1", "2", "3", "4", "5", "6", "7", "8", "9", "a", "b", "c", "d", "e", "f"}

\* GenTerminalSessionId succeeded for request s
Generated(s) == hpc[s] \in {"writing", "done"} /\ ~GenTerminalSessionId(drawn[s]).err

\* C16: an identifier that was generated is 32 characters long, each a
\* lowercase hex digit, and two generations that drew different bytes gave
\* different identifiers.
C16_IdIsHexOfBytes ==
  \A s \in Sessions :
    Generated(s) =>
      /\ Len(sessionIdOf(s)) = 32
      /\ \A i \in 1..Len(sessionIdOf(s)) : sessionIdOf(s)[i] \in HexDigits
      /\ \A s2 \in Sessions :
           (Generated(s2) /\ drawn[s2] # drawn[s]) => sessionIdOf(s2) # sessionIdOf(s)

\* witness of C16: two identifiers generated from buffers that differ only
\* in the high nibble of one byte
C16_Witness ==
  \E s, s2 \in Sessions :
    /\ Generated(s) /\ Generated(s2)
    /\ \E j \in 1..IdBytes :
         /\ drawn[s][j] = 1 /\ drawn[s2][j] = 17
         /\ \A i \in 1..IdBytes : i # j => drawn[s][i] = drawn[s2][i]

\* the reader loops that hold a frame of session k: one received from its
\* connection, or one about to be sent on its receiver channel
Pending(k) ==
  {s \in Sessions : rpc[s] = "lk216" /\ rsess[s].sockConn = k}
    \cup {s \in Sessions : rpc[s] = "send" /\ rsess[s].receiver = k}

\* C17: at most one frame of a session has been received from the socket and
\* not yet handed to a Read call.
C17_Backpressure ==
  \A k \in Sessions : Cardinality(Pending(k)) <= 1

\* the orchestrators whose stream is up with socket k as its output: the
\* stdout copier of each calls Write on k whenever its process has output,
\* and nothing orders the calls of two of them
SockWriters(k) == {s \in Sessions : Streaming(s) /\ ptySess[s].sockConn = k}

\* C18: the frames written to a socket are the payloads of the Write calls
\* that succeeded on it, one frame per call and in the order of the calls,
\* and at most one task is writing to a socket at any time.
C18_OrderedSingleWriter ==
  \A k \in Sessions :
    /\ out[k] = issued[k]
    /\ Cardinality(SockWriters(k)) <= 1

\* the steps the reader loop of request s can take once its connection is
\* closed: its lookups, the failing ReadMessage, and the hand-off of the
\* frame it holds to a Read call
ReaderStep(s) ==
  \/ readFromWebTerminal(s)
  \/ readFromWebTerminalConn(s)
  \/ ReadMessageErr(s)
  \/ readFromWebTerminalSend(s)
  \/ \E rd \in reads, n \in BufSizes : Read(rd, s, n)

\* C19: once the orchestrator of a session has returned, and so has closed
\* its connection, the reader loop of the session has terminated or can
\* take a step: it is not blocked.
C19_ReaderTerminatesAfterClose ==
  \A s \in Sessions :
    (~crashed /\ opc[s] = "done" /\ rpc[s] \notin {"none", "exited"})
      => ENABLED ReaderStep(s)

\* v is the session CreateSession made for request s, with a connection
FoundOwn(s, v) == v = hsess[s] /\ v.sockConn # 0

\* C20: every lookup the orchestrator or the reader loop of a request has
\* made (for the deferred Close, for the ptyHandler of execPod, for the
\* connection to read from and the channel to send on) found the session
\* created for that request, with its connection.
C20_LookupFindsSession ==
  \A s \in Sessions :
    /\ opc[s] \in {"loop", "execLk", "streaming", "closing", "done"}
         => FoundOwn(s, deferSess[s])
    /\ Len(attempts[s]) >= 1 => FoundOwn(s, ptySess[s])
    /\ rpc[s] \in {"readmsg", "lk216", "send", "exited"} => FoundOwn(s, rsess[s])

====
